---- MODULE Spec2Model ----
(***************************************************************************)
(* Model of the BMI tool server (bmi_server.py) and of the query resolver  *)
(* run(query) (bmi_client.py).                                             *)
(*                                                                         *)
(* Numbers are fixed point: a bmi is an integer number of hundredths       *)
(* (24.9 is 2490, 24.95 is 2495), a weight is an integer number of         *)
(* kilograms and a height an integer number of tenths of a metre.          *)
(***************************************************************************)
EXTENDS Integers, Sequences, FiniteSets

\* ---------------------------------------------------------------- bounds
MaxBmiSteps == 620      \* bmi values drawn are 0.00, 0.05, ..., 31.00
MaxWeightSteps == 2     \* weights drawn are -40, 0, 40, 80 kg
MaxHeightSteps == 4     \* heights drawn are -2.0, -1.5, ..., 2.0 m

BmiValues == {5 * b : b \in 0..MaxBmiSteps}
Weights == {40 * w : w \in (-1)..MaxWeightSteps}
Heights == {5 * h : h \in (0 - MaxHeightSteps)..MaxHeightSteps}

\* ------------------------------------------------------------ bmi_server
\* The outcome of evaluating a tool body: a returned value or a raised
\* exception.  num carries a float result, str a string result.
Returned(n, s) == [raised |-> "None", num |-> n, str |-> s]
Raised(e) == [raised |-> e, num |-> 0, str |-> ""]

\* Python's float division: ZeroDivisionError on a zero divisor.  The
\* quotient is kept in hundredths (weight in kg, height squared in 1/100 m2).
TrueDiv(weight, hsq) ==
    IF hsq = 0 THEN Raised("ZeroDivisionError")
    ELSE Returned((weight * 10000) \div hsq, "")

calculate_bmi_noZeroGuard(weight, height) ==
    IF height < 0 THEN Raised("ValueError")
    ELSE TrueDiv(weight, height * height)

calculate_bmi(weight, height) ==
    IF height <= 0 THEN Raised("ValueError")
    ELSE TrueDiv(weight, height * height)

get_bmi_category(bmi) ==
    IF bmi < 1850 THEN Returned(0, "Underweight")
    ELSE IF 1850 <= bmi /\ bmi < 2490 THEN Returned(0, "Normal weight")
    ELSE IF 2500 <= bmi /\ bmi < 2990 THEN Returned(0, "Overweight")
    ELSE Returned(0, "Obesity")

\* The tools registered with @mcp.tool(): name and parameter names.
ToolCatalog ==
    << [name |-> "calculate_bmi", inputSchema |-> {"weight", "height"}],
       [name |-> "get_bmi_category", inputSchema |-> {"bmi"}] >>

RegisteredNames == {ToolCatalog[i].name : i \in DOMAIN ToolCatalog}

\* What the registry does with one tools/call request: look the tool up,
\* bind the arguments to the parameters, run the body.
ExecuteTool(name, arguments) ==
    IF name \notin RegisteredNames THEN Raised("UnknownTool")
    ELSE IF name = "calculate_bmi" THEN
        IF {"weight", "height"} \subseteq DOMAIN arguments
        THEN calculate_bmi(arguments["weight"], arguments["height"])
        ELSE Raised("ValidationError")
    ELSE
        IF {"bmi"} \subseteq DOMAIN arguments
        THEN get_bmi_category(arguments["bmi"])
        ELSE Raised("ValidationError")

\* The response envelope the registry sends back: an exception in the tool
\* travels as a result whose isError flag is set and whose text is the
\* message; a value travels as its text.
ToolResponse(exec) ==
    [isError |-> exec.raised # "None",
     text |-> IF exec.raised # "None" THEN [num |-> 0, str |-> exec.raised]
              ELSE [num |-> exec.num, str |-> exec.str]]

\* ------------------------------------------------------------ bmi_client
Queries == {"Calculate BMI for height 5ft 10inches and weight 80kg",
            "calulate bmi category for 25 bmi"}

EmptyArgs == [n \in {} |-> 0]

\* Argument mappings the language model may put in its answer.
ArgSets ==
    {[weight |-> w, height |-> h] : w \in Weights, h \in Heights}
    \cup {[bmi |-> b] : b \in BmiValues}
    \cup {EmptyArgs}

\* Tool names the language model may put in its answer: the registered
\* ones and one that no descriptor carries.
AnswerNames == RegisteredNames \cup {"get_ideal_weight"}

\* The text of a completion, by what json.loads makes of it: free text that
\* is no JSON document, a JSON document that is no object (a number, a
\* string, a list), or a JSON object with some of the keys "tool" and
\* "arguments".
JsonObject(keys, t, a) ==
    [kind |-> "object", keys |-> keys,
     tool |-> IF "tool" \in keys THEN t ELSE "",
     arguments |-> IF "arguments" \in keys THEN a ELSE EmptyArgs]

FreeText == [kind |-> "text", keys |-> {}, tool |-> "", arguments |-> EmptyArgs]
JsonScalar == [kind |-> "scalar", keys |-> {}, tool |-> "", arguments |-> EmptyArgs]
NoText == [kind |-> "none", keys |-> {}, tool |-> "", arguments |-> EmptyArgs]

LlmTexts ==
    {FreeText, JsonScalar}
    \cup {JsonObject(k, t, a) :
            k \in SUBSET {"tool", "arguments"}, t \in AnswerNames, a \in ArgSets}

\* json.loads(llm_response): the exception it raises, "None" when it parses.
json_loads(text) == IF text.kind = "text" THEN "JSONDecodeError" ELSE "None"

\* tool_call[key]: the exception the subscript raises, "None" when the key
\* is there.
Subscript_get(obj, key) ==
    IF obj.kind # "object" THEN "TypeError" ELSE "None"

Subscript(obj, key) ==
    IF obj.kind # "object" THEN "TypeError"
    ELSE IF key \notin obj.keys THEN "KeyError"
    ELSE "None"

get_prompt_to_identify_tool_and_arguments(q, ts) ==
    [tools_description |-> [i \in DOMAIN ts |-> <<ts[i].name, ts[i].inputSchema>>],
     query |-> q]

NoPrompt == [tools_description |-> <<>>, query |-> ""]
NoResult == [isError |-> FALSE, text |-> [num |-> 0, str |-> ""]]
NoExec == [tool |-> "", arguments |-> EmptyArgs, out |-> Raised("None")]

\* The order in which run(query) takes its steps.
StepOrder == <<"list_tools", "prompt", "llm", "call_tool">>

VARIABLES
    pc,              \* position of run(query)
    query,           \* the query run was called with
    server_process,  \* pid held by run's local server_process, 0 for None
    procs,           \* state of every child process launched, by pid
    signals,         \* terminate/kill requests issued to server_process
    poll_result,     \* what server_process.poll() gave at line 117
    transport,       \* pid of the process behind the session, 0 before it
    tools,           \* descriptors returned by session.list_tools()
    prompt,          \* the prompt built for the language model
    llm_response,    \* text returned by llm_client
    tool_call,       \* json.loads(llm_response)
    result,          \* what session.call_tool returned
    exc,             \* exception in flight, "None" when there is none
    retval,          \* value run returns
    steps,           \* steps of the sequence taken so far, in order
    requests,        \* tools/call requests the registry received
    server_exec      \* what the registry executed for the last request

vars == <<pc, query, server_process, procs, signals, poll_result, transport,
          tools, prompt, llm_response, tool_call, result, exc, retval, steps,
          requests, server_exec>>

procVars == <<server_process, procs, signals, poll_result, transport>>
dataVars == <<tools, prompt, llm_response, tool_call, result>>
serverVars == <<requests, server_exec>>

Init ==
    /\ pc = "idle"
    /\ query = ""
    /\ server_process = 0
    /\ procs = <<>>
    /\ signals = <<>>
    /\ poll_result = "unset"
    /\ transport = 0
    /\ tools = <<>>
    /\ prompt = NoPrompt
    /\ llm_response = NoText
    /\ tool_call = NoText
    /\ result = NoResult
    /\ exc = "None"
    /\ retval = NoResult.text
    /\ steps = <<>>
    /\ requests = <<>>
    /\ server_exec = NoExec

\* Leaving the "async with stdio_client(...)" block closes the channel and
\* ends the process behind it.
CloseTransport(ps) ==
    IF transport = 0 THEN ps ELSE [ps EXCEPT ![transport] = "exited"]

\* An exception leaves the try body: the except clause logs and re-raises,
\* then the finally clause runs.
Raise_skipFinally(e) ==
    /\ exc' = e
    /\ pc' = "done"
    /\ procs' = CloseTransport(procs)

Raise(e) ==
    /\ exc' = e
    /\ pc' = "finally"
    /\ procs' = CloseTransport(procs)

\* run(query) is called: server_process = None, the try body is entered.
run(q) ==
    /\ pc = "idle"
    /\ pc' = "try"
    /\ query' = q
    /\ UNCHANGED <<procVars, dataVars, serverVars, exc, retval, steps>>

\* get_server_process(): Popen starts bmi_server.py and the handle is kept.
get_server_process ==
    /\ pc = "try"
    /\ procs' = Append(procs, "running")
    /\ server_process' = Len(procs) + 1
    /\ pc' = "sleep"
    /\ UNCHANGED <<query, signals, poll_result, transport, dataVars,
                   serverVars, exc, retval, steps>>

\* get_server_process(): Popen fails, the error is logged and re-raised.
get_server_process_fails ==
    /\ pc = "try"
    /\ Raise("OSError")
    /\ UNCHANGED <<query, server_process, signals, poll_result, transport,
                   dataVars, serverVars, retval, steps>>

\* A child process ends on its own account while run is under way.
ProcessExits(p) ==
    /\ pc \notin {"idle", "done"}
    /\ p \in DOMAIN procs
    /\ procs[p] = "running"
    /\ procs' = [procs EXCEPT ![p] = "exited"]
    /\ UNCHANGED <<pc, query, server_process, signals, poll_result, transport,
                   dataVars, serverVars, exc, retval, steps>>

\* Lines 115-118: after the startup wait, poll() tells whether the spawned
\* process has exited; if it has, RuntimeError is raised.
startup_check_ignored ==
    /\ pc = "sleep"
    /\ poll_result' = IF procs[server_process] = "exited" THEN "exited" ELSE "None"
    /\ pc' = "connect"
    /\ UNCHANGED <<query, server_process, procs, signals, transport, dataVars,
                   serverVars, exc, retval, steps>>

startup_check ==
    /\ pc = "sleep"
    /\ poll_result' = IF procs[server_process] = "exited" THEN "exited" ELSE "None"
    /\ IF procs[server_process] = "exited"
       THEN Raise("RuntimeError")
       ELSE /\ pc' = "connect"
            /\ UNCHANGED <<procs, exc>>
    /\ UNCHANGED <<query, server_process, signals, transport, dataVars,
                   serverVars, retval, steps>>

\* Line 120: stdio_client(server_params) starts the command of
\* server_params as a child process of its own and opens the channel to it.
stdio_client ==
    /\ pc = "connect"
    /\ procs' = Append(procs, "running")
    /\ transport' = Len(procs) + 1
    /\ pc' = "init"
    /\ UNCHANGED <<query, server_process, signals, poll_result, dataVars,
                   serverVars, exc, retval, steps>>

\* Lines 122-123: the session is opened and initialised over the channel.
initialize ==
    /\ pc = "init"
    /\ IF procs[transport] = "running"
       THEN /\ pc' = "list"
            /\ UNCHANGED <<procs, exc>>
       ELSE Raise("ConnectionError")
    /\ UNCHANGED <<query, server_process, signals, poll_result, transport,
                   dataVars, serverVars, retval, steps>>

\* Line 127: the catalog is fetched from the registry.
list_tools ==
    /\ pc = "list"
    /\ steps' = Append(steps, "list_tools")
    /\ IF procs[transport] = "running"
       THEN /\ tools' = ToolCatalog
            /\ pc' = "prompt"
            /\ UNCHANGED <<procs, exc>>
       ELSE /\ Raise("ConnectionError")
            /\ UNCHANGED tools
    /\ UNCHANGED <<query, server_process, signals, poll_result, transport,
                   prompt, llm_response, tool_call, result, serverVars, retval>>

\* Line 131: the prompt is built from the query and the catalog.
build_prompt ==
    /\ pc = "prompt"
    /\ steps' = Append(steps, "prompt")
    /\ prompt' = get_prompt_to_identify_tool_and_arguments(query, tools)
    /\ pc' = "llm"
    /\ UNCHANGED <<query, procVars, tools, llm_response, tool_call, result,
                   serverVars, exc, retval>>

\* Line 136: the language model answers with some text.
llm_client(text) ==
    /\ pc = "llm"
    /\ steps' = Append(steps, "llm")
    /\ llm_response' = text
    /\ pc' = "parse"
    /\ UNCHANGED <<query, procVars, tools, prompt, tool_call, result,
                   serverVars, exc, retval>>

\* Line 136: the call to the language model fails.
llm_client_fails ==
    /\ pc = "llm"
    /\ steps' = Append(steps, "llm")
    /\ Raise("APIError")
    /\ UNCHANGED <<query, server_process, signals, poll_result, transport,
                   dataVars, serverVars, retval>>

\* Line 140: tool_call = json.loads(llm_response).
parse_with_retry ==
    /\ pc = "parse"
    /\ IF json_loads(llm_response) # "None"
       THEN /\ pc' = "llm"
            /\ UNCHANGED <<tool_call, procs, exc>>
       ELSE /\ tool_call' = llm_response
            /\ pc' = "dispatch"
            /\ UNCHANGED <<procs, exc>>
    /\ UNCHANGED <<query, server_process, signals, poll_result, transport,
                   tools, prompt, llm_response, result, serverVars, retval, steps>>

parse ==
    /\ pc = "parse"
    /\ IF json_loads(llm_response) # "None"
       THEN /\ Raise(json_loads(llm_response))
            /\ UNCHANGED tool_call
       ELSE /\ tool_call' = llm_response
            /\ pc' = "dispatch"
            /\ UNCHANGED <<procs, exc>>
    /\ UNCHANGED <<query, server_process, signals, poll_result, transport,
                   tools, prompt, llm_response, result, serverVars, retval, steps>>

\* Line 143: tool_call["tool"] and tool_call["arguments"] are read, then
\* session.call_tool sends the request; the registry executes the tool and
\* its response is what call_tool returns.
call_tool ==
    /\ pc = "dispatch"
    /\ IF Subscript(tool_call, "tool") # "None"
       THEN /\ Raise(Subscript(tool_call, "tool"))
            /\ UNCHANGED <<steps, result, serverVars>>
       ELSE IF Subscript(tool_call, "arguments") # "None"
       THEN /\ Raise(Subscript(tool_call, "arguments"))
            /\ UNCHANGED <<steps, result, serverVars>>
       ELSE /\ steps' = Append(steps, "call_tool")
            /\ IF procs[transport] = "running"
               THEN /\ requests' = Append(requests,
                           [tool |-> tool_call.tool, arguments |-> tool_call.arguments])
                    /\ server_exec' =
                           [tool |-> tool_call.tool, arguments |-> tool_call.arguments,
                            out |-> ExecuteTool(tool_call.tool, tool_call.arguments)]
                    /\ result' = ToolResponse(ExecuteTool(tool_call.tool, tool_call.arguments))
                    /\ pc' = "return"
                    /\ UNCHANGED <<procs, exc>>
               ELSE /\ Raise("ConnectionError")
                    /\ UNCHANGED <<result, serverVars>>
    /\ UNCHANGED <<query, server_process, signals, poll_result, transport,
                   tools, prompt, llm_response, tool_call, retval>>

\* Lines 146-147: return result.content[0].text; the with blocks are left.
return_result ==
    /\ pc = "return"
    /\ retval' = result.text
    /\ procs' = CloseTransport(procs)
    /\ pc' = "finally"
    /\ UNCHANGED <<query, server_process, signals, poll_result, transport,
                   dataVars, serverVars, exc, steps>>

\* Lines 151-152: finally with server_process still None: nothing to do.
finally_none ==
    /\ pc = "finally"
    /\ server_process = 0
    /\ pc' = "done"
    /\ UNCHANGED <<query, procVars, dataVars, serverVars, exc, retval, steps>>

\* Lines 152-156: server_process.terminate(), then the half second wait.
finally_terminate ==
    /\ pc = "finally"
    /\ server_process # 0
    /\ signals' = Append(signals, "terminate")
    /\ pc' = "grace"
    /\ UNCHANGED <<query, server_process, procs, poll_result, transport,
                   dataVars, serverVars, exc, retval, steps>>

\* Lines 157-158: server_process.kill() and wait(timeout=1); run completes,
\* returning retval or re-raising exc.
finally_kill ==
    /\ pc = "grace"
    /\ signals' = Append(signals, "kill")
    /\ procs' = [procs EXCEPT ![server_process] = "exited"]
    /\ pc' = "done"
    /\ UNCHANGED <<query, server_process, poll_result, transport, dataVars,
                   serverVars, exc, retval, steps>>

Next ==
    \/ \E q \in Queries : run(q)
    \/ get_server_process
    \/ get_server_process_fails
    \/ \E p \in DOMAIN procs : ProcessExits(p)
    \/ startup_check
    \/ stdio_client
    \/ initialize
    \/ list_tools
    \/ build_prompt
    \/ (pc = "llm" /\ \E text \in LlmTexts : llm_client(text))
    \/ llm_client_fails
    \/ parse
    \/ call_tool
    \/ return_result
    \/ finally_none
    \/ finally_terminate
    \/ finally_kill

Spec == Init /\ [][Next]_vars

\* ================================================================ claims
Range(seq) == {seq[i] : i \in DOMAIN seq}
IsPrefix(s, t) == Len(s) <= Len(t) /\ \A i \in DOMAIN s : s[i] = t[i]

ExecutedCategory ==
    /\ server_exec.tool = "get_bmi_category"
    /\ "bmi" \in DOMAIN server_exec.arguments

ExecutedBmi ==
    /\ server_exec.tool = "calculate_bmi"
    /\ {"weight", "height"} \subseteq DOMAIN server_exec.arguments

\* The bands as the specification states them: 18.5, 25 and 30.
StatedCategory(bmi) ==
    IF bmi < 1850 THEN "Underweight"
    ELSE IF bmi < 2500 THEN "Normal weight"
    ELSE IF bmi < 3000 THEN "Overweight"
    ELSE "Obesity"

BandRank(c) ==
    CASE c = "Underweight" -> 0
      [] c = "Normal weight" -> 1
      [] c = "Overweight" -> 2
      [] c = "Obesity" -> 3
      [] OTHER -> 4

\* C1: whenever the registry has executed get_bmi_category(bmi), the value
\* it returned is the band the specification states for bmi: Underweight
\* below 18.5, Normal weight from 18.5 up to 25, Overweight from 25 up to
\* 30, Obesity from 30 on.
C1_StatedBands ==
    ExecutedCategory =>
        server_exec.out = Returned(0, StatedCategory(server_exec.arguments["bmi"]))

\* C2: whenever the registry has executed calculate_bmi with a height that
\* is zero or negative, the outcome is the ValueError and no value: the
\* division was not evaluated (neither a quotient nor a ZeroDivisionError).
C2_NonPositiveHeightRejected ==
    (ExecutedBmi /\ server_exec.arguments["height"] <= 0) =>
        server_exec.out = Raised("ValueError")

C2_Witness ==
    /\ ExecutedBmi
    /\ server_exec.arguments["height"] = 0
    /\ server_exec.out.raised = "ValueError"

\* The model's text is malformed: no JSON document, or a JSON document
\* without the key "tool" or without the key "arguments".
Malformed(text) ==
    \/ text.kind = "text"
    \/ text.kind = "scalar"
    \/ text.kind = "object" /\ ~({"tool", "arguments"} \subseteq text.keys)

\* C3: once the language model has answered with malformed text,
\* session.call_tool is never invoked, the registry receives no request, and
\* run completes with an error.
C3_MalformedNeverDispatched ==
    Malformed(llm_response) =>
        /\ "call_tool" \notin Range(steps)
        /\ requests = <<>>
        /\ (pc = "done" => exc # "None")

C3_Witness ==
    /\ pc = "done"
    /\ llm_response.kind = "object"
    /\ llm_response.keys = {"tool"}
    /\ exc = "KeyError"
    /\ requests = <<>>

\* C4: session.call_tool is invoked only with a tool name that one of the
\* descriptors fetched by list_tools carries.
C4_UnknownToolRejected ==
    "call_tool" \in Range(steps) =>
        tool_call.tool \in {tools[i].name : i \in DOMAIN tools}

\* C5: whenever run has completed after spawning the server process,
\* terminate and then kill have been issued to that process, and it is no
\* longer running.
C5_CleanupOnEveryExit ==
    (pc = "done" /\ server_process # 0) =>
        /\ signals = <<"terminate", "kill">>
        /\ procs[server_process] = "exited"

C5_Witness ==
    /\ pc = "done"
    /\ server_process # 0
    /\ exc = "JSONDecodeError"
    /\ signals = <<"terminate", "kill">>

\* C6: when the dispatched tool raised the invalid-argument error
\* (ValueError), run does not complete normally with a result value: it
\* completes with an error.
C6_ToolErrorReported ==
    (pc = "done" /\ server_exec.out.raised = "ValueError") => exc # "None"

\* C7: the steps taken are always an initial part of list_tools, prompt,
\* llm, call_tool (each at most once, in that order), and once a step has
\* failed no further step is taken.
C7_LinearSingleShot ==
    /\ [](IsPrefix(steps, StepOrder))
    /\ [][exc # "None" => steps' = steps]_vars

C7_Witness ==
    /\ pc = "done"
    /\ steps = StepOrder
    /\ Len(requests) = 1

\* C8: when the startup check found the spawned process exited, no catalog
\* fetch, model call or tool dispatch takes place, and run completes with
\* the RuntimeError after terminate and kill were issued to the process.
C8_StartupCheckFatal ==
    poll_result = "exited" =>
        /\ steps = <<>>
        /\ requests = <<>>
        /\ (pc = "done" => exc = "RuntimeError" /\ signals = <<"terminate", "kill">>)

C8_Witness ==
    /\ pc = "done"
    /\ poll_result = "exited"
    /\ exc = "RuntimeError"
    /\ signals = <<"terminate", "kill">>

\* C9: run launches at most one registry process, and the process behind
\* the session is the one held in server_process.
C9_OneRegistryProcess ==
    /\ Len(procs) <= 1
    /\ (transport # 0 => transport = server_process)

\* C10: the category the registry returned for a bmi x is not a higher band
\* than the category of any y >= x.
C10_CategoryMonotone ==
    ExecutedCategory =>
        \A y \in BmiValues :
            server_exec.arguments["bmi"] <= y =>
                BandRank(server_exec.out.str) <= BandRank(get_bmi_category(y).str)

====
